---- MODULE Spec2Model ----
(***************************************************************************)
(* Model of src/src/rummikub.rs: the Card/Color value types, their derived *)
(* order, and the search for valid Rummikub sets in a tray of cards        *)
(* (find_same_numbers, find_runs, valid_sets).                             *)
(*                                                                         *)
(* A Vec<&Card> is modelled by the sequence of the values of the cards it  *)
(* refers to: Eq and Ord on &Card delegate to Card, so the BTreeSets and   *)
(* the sort of the source see the values only.                             *)
(* Option<T> is modelled as a sequence: None is <<>>, Some(x) is <<x>>.    *)
(***************************************************************************)
EXTENDS Integers, Sequences, FiniteSets, TLC

VARIABLES cards, pc, runs, same_numbers, sets

vars == <<cards, pc, runs, same_numbers, sets>>

----------------------------------------------------------------------------
(* Bounds of the model. *)

\* longest tray given in arbitrary order
MaxHand == 3
\* longest tray given in sorted order (main.rs sorts the tray before the search)
MaxTray == 5

----------------------------------------------------------------------------
(* Value types. *)

\* enum Color, in declaration order (the derived Ord is the declaration order)
Colors == <<"Red", "Blue", "Black", "Yellow">>

ColorSet == {Colors[i] : i \in 1..Len(Colors)}

\* discriminant of a Color variant
ColorOrd(color) == CHOOSE i \in 1..Len(Colors) : Colors[i] = color

\* the numbers a run can hold: `for num in 1..=13` in find_runs
MinNumber == 1
MaxNumber == 13

None == <<>>
Some(x) == <<x>>

\* Card::Wildcard
Wildcard == [kind |-> "Wildcard"]

\* Card::new: stores the number and the color as given, whatever the number
CardNew(number, color) == [kind |-> "Numbered", number |-> number, color |-> color]

IsNumbered(c) == c.kind = "Numbered"

\* Card::number
Number(c) == IF IsNumbered(c) THEN Some(c.number) ELSE None

\* Card::color
Color(c) == IF IsNumbered(c) THEN Some(c.color) ELSE None

\* Card::is_wildcard
IsWildcard(c) == c = Wildcard

\* position of the variant in enum Card: Numbered, then Wildcard
Discriminant(c) == IF IsNumbered(c) THEN 0 ELSE 1

IntCmp(a, b) == IF a < b THEN -1 ELSE IF a > b THEN 1 ELSE 0

\* a comparison that looks at the color before the number
CardCmpColorFirst(a, b) ==
    IF Discriminant(a) # Discriminant(b)
    THEN IntCmp(Discriminant(a), Discriminant(b))
    ELSE IF ~IsNumbered(a) THEN 0
    ELSE IF a.color # b.color THEN IntCmp(ColorOrd(a.color), ColorOrd(b.color))
    ELSE IntCmp(a.number, b.number)

\* #[derive(Ord)] on Card: the variants first, then the fields in declaration
\* order (number, color); -1 is Less, 0 Equal, 1 Greater
CardCmp(a, b) ==
    IF Discriminant(a) # Discriminant(b)
    THEN IntCmp(Discriminant(a), Discriminant(b))
    ELSE IF ~IsNumbered(a) THEN 0
    ELSE IF a.number # b.number THEN IntCmp(a.number, b.number)
    ELSE IntCmp(ColorOrd(a.color), ColorOrd(b.color))

\* Ord on Vec<&Card>: lexicographic, a proper prefix is Less
RECURSIVE VecCmp(_, _)
VecCmp(a, b) ==
    IF a = <<>> THEN (IF b = <<>> THEN 0 ELSE -1)
    ELSE IF b = <<>> THEN 1
    ELSE IF CardCmp(Head(a), Head(b)) # 0 THEN CardCmp(Head(a), Head(b))
    ELSE VecCmp(Tail(a), Tail(b))

\* a sort that leaves the slice as it is
SortCardsNot(v) == v

\* slice::sort on Vec<&Card>: stable, ascending
RECURSIVE SortCards(_)
SortCards(v) ==
    IF v = <<>> THEN <<>>
    ELSE LET sorted == SortCards(SubSeq(v, 1, Len(v) - 1))
             x == v[Len(v)]
             k == Cardinality({i \in 1..Len(sorted) : CardCmp(sorted[i], x) <= 0})
         IN  SubSeq(sorted, 1, k) \o <<x>> \o SubSeq(sorted, k + 1, Len(sorted))

\* BTreeSet<Vec<&Card>>::into_iter().collect(): the elements in ascending order
RECURSIVE IntoIterCollect(_)
IntoIterCollect(S) ==
    IF S = {} THEN <<>>
    ELSE LET first == CHOOSE x \in S : \A y \in S : VecCmp(x, y) <= 0
         IN  <<first>> \o IntoIterCollect(S \ {first})

\* Vec::remove(idx), idx counted from 0
Remove(v, idx) == SubSeq(v, 1, idx) \o SubSeq(v, idx + 2, Len(v))

----------------------------------------------------------------------------
(* The search. *)

\* get_wildcards
GetWildcards(cs) == SelectSeq(cs, IsWildcard)

\* a create_permutations that keeps a block of any size
RECURSIVE CreatePermutationsAnySize(_)
CreatePermutationsAnySize(set) ==
    {set}
    \cup (IF Len(set) > 3
          THEN UNION {CreatePermutationsAnySize(Remove(set, remove_idx)) :
                          remove_idx \in 0..(Len(set) - 1)}
          ELSE {})

\* a create_permutations that does not split a block of 4
RECURSIVE CreatePermutationsSplitAbove4(_)
CreatePermutationsSplitAbove4(set) ==
    (IF Len(set) <= 4 THEN {set} ELSE {})
    \cup (IF Len(set) > 4
          THEN UNION {CreatePermutationsSplitAbove4(Remove(set, remove_idx)) :
                          remove_idx \in 0..(Len(set) - 1)}
          ELSE {})

\* create_permutations: the BTreeSet of the blocks of 3 or 4 cards of `set`
RECURSIVE CreatePermutations(_)
CreatePermutations(set) ==
    (IF Len(set) <= 4 THEN {set} ELSE {})
    \cup (IF Len(set) > 3
          THEN UNION {CreatePermutations(Remove(set, remove_idx)) :
                          remove_idx \in 0..(Len(set) - 1)}
          ELSE {})

\* the value a panicking unwrap stands for: the call does not return
Panicked == [kind |-> "panic"]

\* Option::unwrap
Unwrap(opt) == IF opt = None THEN Panicked ELSE opt[1]

\* Vec::pop: the last element, if any
Pop(v) == IF v = <<>> THEN None ELSE Some(v[Len(v)])

\* the Vec that Vec::pop leaves
Popped(v) == IF v = <<>> THEN <<>> ELSE SubSeq(v, 1, Len(v) - 1)

\* the map over subwindow in create_run_windows: a present card is kept, a
\* missing one takes the next wildcard off tmp_wildcards
RECURSIVE FillRun(_, _)
FillRun(subwindow, tmp_wildcards) ==
    IF subwindow = <<>> THEN <<>>
    ELSE IF Head(subwindow) # None
    THEN <<Head(subwindow)[1]>> \o FillRun(Tail(subwindow), tmp_wildcards)
    ELSE <<Unwrap(Pop(tmp_wildcards))>> \o FillRun(Tail(subwindow), Popped(tmp_wildcards))

\* the test `missing_cards <= wildcards.len()` of create_run_windows, off by one
WindowFitsOneMore(subwindow, wildcards) ==
    Cardinality({i \in 1..Len(subwindow) : subwindow[i] = None}) <= Len(wildcards) + 1

\* the test `missing_cards <= wildcards.len()` of create_run_windows
WindowFits(subwindow, wildcards) ==
    Cardinality({i \in 1..Len(subwindow) : subwindow[i] = None}) <= Len(wildcards)

\* an inner loop of create_run_windows that stops one start short
RECURSIVE WindowsFromExclusive(_, _, _, _)
WindowsFromExclusive(set, wildcards, window_length, start_idx) ==
    IF start_idx >= Len(set) - window_length THEN <<>>
    ELSE LET subwindow == SubSeq(set, start_idx + 1, window_length + start_idx)
         IN  (IF WindowFits(subwindow, wildcards)
              THEN <<FillRun(subwindow, wildcards)>>
              ELSE <<>>)
             \o WindowsFromExclusive(set, wildcards, window_length, start_idx + 1)

\* the inner loop of create_run_windows from start_idx on
RECURSIVE WindowsFrom(_, _, _, _)
WindowsFrom(set, wildcards, window_length, start_idx) ==
    IF start_idx > Len(set) - window_length THEN <<>>
    ELSE LET subwindow == SubSeq(set, start_idx + 1, window_length + start_idx)
         IN  (IF WindowFits(subwindow, wildcards)
              THEN <<FillRun(subwindow, wildcards)>>
              ELSE <<>>)
             \o WindowsFrom(set, wildcards, window_length, start_idx + 1)

\* the outer loop of create_run_windows, window_length running downwards
RECURSIVE WindowsDownFrom(_, _, _)
WindowsDownFrom(set, wildcards, window_length) ==
    IF window_length < 3 THEN <<>>
    ELSE WindowsFrom(set, wildcards, window_length, 0)
         \o WindowsDownFrom(set, wildcards, window_length - 1)

\* create_run_windows
CreateRunWindows(set, wildcards) == WindowsDownFrom(set, wildcards, Len(set))

\* a grouped_cards that puts every numbered card under every color of the tray
GroupedByColorUnfiltered(cs) ==
    [color \in {cs[i].color : i \in {j \in 1..Len(cs) : IsNumbered(cs[j])}} |->
        {cs[i] : i \in {j \in 1..Len(cs) : IsNumbered(cs[j])}}]

\* grouped_cards of find_runs: the BTreeSet of the numbered cards of each color
GroupedByColor(cs) ==
    [color \in {cs[i].color : i \in {j \in 1..Len(cs) : IsNumbered(cs[j])}} |->
        {cs[i] : i \in {j \in 1..Len(cs) : IsNumbered(cs[j]) /\ cs[j].color = color}}]

\* an all_nums_set filled by `for num in 0..13`
AllNumsSetFromZero(colorCards) ==
    [slot \in MinNumber..MaxNumber |->
        IF \E c \in colorCards : Number(c) = Some(slot - 1)
        THEN Some(CHOOSE c \in colorCards : Number(c) = Some(slot - 1))
        ELSE None]

\* all_nums_set of find_runs: for each num in 1..=13 the card found, if any
AllNumsSet(colorCards) ==
    [num \in MinNumber..MaxNumber |->
        IF \E c \in colorCards : Number(c) = Some(num)
        THEN Some(CHOOSE c \in colorCards : Number(c) = Some(num))
        ELSE None]

\* the runs find_runs appends for one color
RunsOfColor(colorCards, wildcards) ==
    IF Cardinality(colorCards) + Len(wildcards) >= 3
    THEN CreateRunWindows(AllNumsSet(colorCards), wildcards)
    ELSE <<>>

\* the loop of find_runs over grouped_cards.values(), from the i-th Color on
RECURSIVE RunsFromColor(_, _, _)
RunsFromColor(grouped_cards, wildcards, i) ==
    IF i > Len(Colors) THEN <<>>
    ELSE (IF Colors[i] \in DOMAIN grouped_cards
          THEN RunsOfColor(grouped_cards[Colors[i]], wildcards)
          ELSE <<>>)
         \o RunsFromColor(grouped_cards, wildcards, i + 1)

\* find_runs
FindRuns(cs) == RunsFromColor(GroupedByColor(cs), GetWildcards(cs), 1)

\* Itertools::group_by on the key c.number(): maximal blocks of consecutive
\* elements with equal keys
RECURSIVE GroupByNumber(_)
GroupByNumber(v) ==
    IF v = <<>> THEN <<>>
    ELSE LET k == IF \E i \in 1..Len(v) : Number(v[i]) # Number(v[1])
                  THEN (CHOOSE i \in 1..Len(v) :
                            /\ Number(v[i]) # Number(v[1])
                            /\ \A j \in 1..(i - 1) : Number(v[j]) = Number(v[1])) - 1
                  ELSE Len(v)
         IN  <<SubSeq(v, 1, k)>> \o GroupByNumber(SubSeq(v, k + 1, Len(v)))

\* a unique_by that lets every element through
UniqueByColorKeepAll(v) == v

\* Itertools::unique_by on the key c.color(): the first element of each key
RECURSIVE UniqueByColor(_)
UniqueByColor(v) ==
    IF v = <<>> THEN <<>>
    ELSE LET front == SubSeq(v, 1, Len(v) - 1)
             x == v[Len(v)]
         IN  IF \E i \in 1..Len(front) : Color(front[i]) = Color(x)
             THEN UniqueByColor(front)
             ELSE UniqueByColor(front) \o <<x>>

\* a find_same_numbers body that skips unique_by
GroupSetsKeepingDuplicates(group, wildcards) ==
    IF Len(group) + Len(wildcards) >= 3
    THEN CreatePermutations(group \o wildcards)
    ELSE {}

\* the body of the loop of find_same_numbers for one group of equal numbers
GroupSets(group, wildcards) ==
    LET unique == UniqueByColor(group)
    IN  IF Len(unique) + Len(wildcards) >= 3
        THEN CreatePermutations(unique \o wildcards)
        ELSE {}

\* unique_by on the key c.number()
RECURSIVE UniqueByNumber(_)
UniqueByNumber(v) ==
    IF v = <<>> THEN <<>>
    ELSE LET front == SubSeq(v, 1, Len(v) - 1)
             x == v[Len(v)]
         IN  IF \E i \in 1..Len(front) : Number(front[i]) = Number(x)
             THEN UniqueByNumber(front)
             ELSE UniqueByNumber(front) \o <<x>>

\* a find_same_numbers that groups by color and keeps one card of each number
FindSameNumbersByColor(cs) ==
    LET wildcards == GetWildcards(cs)
        sorted_cards == SortCards(cs)
        unique(color) ==
            UniqueByNumber(SelectSeq(sorted_cards, LAMBDA c : Color(c) = Some(color)))
    IN  IntoIterCollect(UNION {
            IF unique(color) # <<>> /\ Len(unique(color)) + Len(wildcards) >= 3
            THEN CreatePermutations(unique(color) \o wildcards)
            ELSE {} : color \in ColorSet})

\* find_same_numbers
FindSameNumbers(cs) ==
    LET wildcards == GetWildcards(cs)
        sorted_cards == SortCards(cs)
        grouped_cards == GroupByNumber(SelectSeq(sorted_cards, LAMBDA c : ~IsWildcard(c)))
    IN  IntoIterCollect(UNION {GroupSets(grouped_cards[i], wildcards) :
                                   i \in 1..Len(grouped_cards)})

\* valid_sets, given the results of its two calls
ValidSets(found_runs, found_same_numbers) == found_same_numbers \o found_runs

----------------------------------------------------------------------------
(* The trays the search is run on. *)

\* the cards the trays are made of: the numbers 1..3 in every color, a Blue 0
\* (Card::new takes any i8), and the wildcard
TrayCards ==
    {CardNew(n, c) : n \in 1..3, c \in ColorSet} \cup {CardNew(0, "Blue")} \cup {Wildcard}

\* every tray of at most n cards, in any order
RECURSIVE TraysUpTo(_)
TraysUpTo(n) ==
    IF n = 0 THEN {<<>>}
    ELSE LET shorter == TraysUpTo(n - 1)
         IN  shorter \cup {Append(t, c) : t \in {s \in shorter : Len(s) = n - 1}, c \in TrayCards}

\* every tray of at most n cards that is sorted, as tray.sort() of main leaves it
RECURSIVE SortedTraysUpTo(_)
SortedTraysUpTo(n) ==
    IF n = 0 THEN {<<>>}
    ELSE LET shorter == SortedTraysUpTo(n - 1)
         IN  shorter \cup
             UNION {{Append(t, c) : c \in {d \in TrayCards :
                                              t = <<>> \/ CardCmp(t[Len(t)], d) <= 0}} :
                        t \in {s \in shorter : Len(s) = n - 1}}

\* the trays of the tests of rummikub.rs
TestTrays ==
    LET B == "Blue" R == "Red" Y == "Yellow" W == Wildcard
        base == <<CardNew(2, B), CardNew(2, R), CardNew(2, Y), CardNew(3, B), CardNew(3, B),
                  CardNew(3, R), CardNew(4, Y), CardNew(5, B)>>
        run == <<CardNew(2, B), CardNew(3, B), CardNew(4, B), CardNew(5, R),
                 CardNew(6, B), CardNew(7, B)>>
    IN  { base,
          base \o <<W>>,
          <<CardNew(2, B), CardNew(2, R), CardNew(2, Y), W, W>>,
          <<CardNew(3, B), CardNew(3, R), W, W>>,
          <<CardNew(3, B), W, W>>,
          run,
          run \o <<W>>,
          <<CardNew(2, B), CardNew(3, B), CardNew(6, B), CardNew(7, B), W, W>> }

\* the tray 2-Blue, 2-Red, 2-Yellow, Wildcard
Scenario2Tray == <<CardNew(2, "Blue"), CardNew(2, "Red"), CardNew(2, "Yellow"), Wildcard>>

Trays == TraysUpTo(MaxHand) \cup SortedTraysUpTo(MaxTray) \cup TestTrays \cup {Scenario2Tray}

----------------------------------------------------------------------------
(* One call of valid_sets(cards), statement by statement. *)

Init ==
    /\ cards \in Trays
    /\ pc = "start"
    /\ runs = <<>>
    /\ same_numbers = <<>>
    /\ sets = <<>>

HasPanicked(found) ==
    \E i \in 1..Len(found) : \E j \in 1..Len(found[i]) : found[i][j] = Panicked

\* let mut runs = find_runs(cards);
CallFindRuns ==
    /\ pc = "start"
    /\ LET found == FindRuns(cards)
       IN  IF HasPanicked(found)
           THEN pc' = "panic" /\ runs' = <<>>
           ELSE pc' = "find_runs" /\ runs' = found
    /\ UNCHANGED <<cards, same_numbers, sets>>

\* let mut same_numbers = find_same_numbers(cards);
CallFindSameNumbers ==
    /\ pc = "find_runs"
    /\ pc' = "find_same_numbers"
    /\ same_numbers' = FindSameNumbers(cards)
    /\ UNCHANGED <<cards, runs, sets>>

\* same_numbers.append(&mut runs); same_numbers
Return ==
    /\ pc = "find_same_numbers"
    /\ pc' = "done"
    /\ sets' = ValidSets(runs, same_numbers)
    /\ UNCHANGED <<cards, runs, same_numbers>>

Next == CallFindRuns \/ CallFindSameNumbers \/ Return

Spec == Init /\ [][Next]_vars

\* the call on the trays that come in arbitrary order only
InitAnyOrder ==
    /\ cards \in TraysUpTo(MaxHand) \cup TestTrays \cup {Scenario2Tray}
    /\ pc = "start"
    /\ runs = <<>>
    /\ same_numbers = <<>>
    /\ sets = <<>>

SpecAnyOrder == InitAnyOrder /\ [][Next]_vars

----------------------------------------------------------------------------
(* Vocabulary of the properties. *)

\* the call of find_runs has returned
RunsReturned == pc \in {"find_runs", "find_same_numbers", "done"}

\* the call of find_same_numbers has returned
SameNumbersReturned == pc \in {"find_same_numbers", "done"}

NumWildcards(v) == Cardinality({i \in 1..Len(v) : IsWildcard(v[i])})

NumNumbered(v) == Cardinality({i \in 1..Len(v) : IsNumbered(v[i])})

\* W: the wildcards of the tray
W == NumWildcards(cards)

\* the tray holds a card of this number and color
Holds(number, color) == \E i \in 1..Len(cards) : cards[i] = CardNew(number, color)

NumbersInTray == {cards[i].number : i \in {j \in 1..Len(cards) : IsNumbered(cards[j])}}

ColorsInTray == {cards[i].color : i \in {j \in 1..Len(cards) : IsNumbered(cards[j])}}

\* the colors in which the tray holds the number
ColorsOf(number) == {color \in ColorSet : Holds(number, color)}

\* every numbered card of the tray has a number of 1..13
InRange == \A i \in 1..Len(cards) :
               IsNumbered(cards[i]) => cards[i].number \in MinNumber..MaxNumber

\* the i-th set of the result of valid_sets comes from find_runs
IsRun(i) == i > Len(same_numbers)

\* the numbers the tray holds in each of its colors
NumbersOfColor ==
    [color \in ColorsInTray |->
        {cards[i].number :
            i \in {j \in 1..Len(cards) : IsNumbered(cards[j]) /\ cards[j].color = color}}]

\* the windows of 1..13: a length and a start
Windows == {w \in (3..MaxNumber) \X (MinNumber..MaxNumber) : w[2] + w[1] - 1 <= MaxNumber}

\* the window of length len from start as a run: the card of each number, a
\* wildcard where the tray does not hold the number in the color
WindowRun(color, len, start) ==
    [i \in 1..len |-> IF Holds(start + i - 1, color)
                      THEN CardNew(start + i - 1, color)
                      ELSE Wildcard]

----------------------------------------------------------------------------
(* C1 *)

\* C1 as stated: no two sets returned by one call of valid_sets have the same
\* tile-value content once their tiles are sorted.
C1_NoTwoSetsWithSameContent ==
    pc = "done" =>
        \A i, j \in 1..Len(sets) :
            i < j => SortCards(sets[i]) # SortCards(sets[j])

\* C1 amended: two sets returned by one call of valid_sets have the same sorted
\* content only if at least one of them is a run that contains a wildcard.
C1_SameContentOnlyWithWildcardRun ==
    pc = "done" =>
        \A i, j \in 1..Len(sets) :
            (i < j /\ SortCards(sets[i]) = SortCards(sets[j]))
                => \/ IsRun(i) /\ NumWildcards(sets[i]) > 0
                   \/ IsRun(j) /\ NumWildcards(sets[j]) > 0

\* valid_sets has returned a group without a wildcard, and two runs with the
\* same content
C1_Witness ==
    /\ pc = "done"
    /\ \E k \in 1..Len(same_numbers) : NumWildcards(same_numbers[k]) = 0
    /\ \E i, j \in 1..Len(sets) :
           i < j /\ IsRun(i) /\ SortCards(sets[i]) = SortCards(sets[j])

----------------------------------------------------------------------------
(* C2 *)

\* C2: every set returned by find_same_numbers has 3 or 4 tiles, its numbered
\* tiles carry one number and pairwise distinct colors, and it holds at most W
\* wildcards.
C2_GroupsAreValid ==
    SameNumbersReturned =>
        \A k \in 1..Len(same_numbers) :
            LET g == same_numbers[k]
            IN  /\ Len(g) \in {3, 4}
                /\ \A i, j \in 1..Len(g) :
                       (IsNumbered(g[i]) /\ IsNumbered(g[j]))
                           => /\ g[i].number = g[j].number
                              /\ (i # j => g[i].color # g[j].color)
                /\ NumWildcards(g) <= W

\* find_same_numbers has cut a pool of more than 4 cards (4 colors of one
\* number and a wildcard) down to groups of 3 and of 4
C2_Witness ==
    /\ SameNumbersReturned
    /\ W >= 1
    /\ \E n \in NumbersInTray : Cardinality(ColorsOf(n)) = 4
    /\ \E k \in 1..Len(same_numbers) :
           Len(same_numbers[k]) = 4 /\ NumWildcards(same_numbers[k]) = 1
    /\ \E k \in 1..Len(same_numbers) :
           Len(same_numbers[k]) = 3 /\ NumWildcards(same_numbers[k]) = 0

----------------------------------------------------------------------------
(* C3 *)

\* C3: every set returned by find_runs has 3 to 13 tiles, its numbered tiles
\* have one color, the numbered tile at position i carries the number
\* start + i - 1 of a window that lies inside 1..13, and it holds at most W
\* wildcards.
C3_RunsAreValid ==
    RunsReturned =>
        \A k \in 1..Len(runs) :
            LET r == runs[k]
            IN  /\ Len(r) \in 3..MaxNumber
                /\ \A i \in 1..Len(r) : IsNumbered(r[i]) \/ IsWildcard(r[i])
                /\ \A i, j \in 1..Len(r) :
                       (IsNumbered(r[i]) /\ IsNumbered(r[j])) => r[i].color = r[j].color
                /\ \E start \in MinNumber..(MaxNumber + 1 - Len(r)) :
                       \A i \in 1..Len(r) :
                           IsNumbered(r[i]) => r[i].number = start + i - 1
                /\ NumWildcards(r) <= W

\* find_runs has returned a run with a wildcard between two numbered tiles and
\* a run that starts with a wildcard, from a tray that also holds a card with a
\* number below 1
C3_Witness ==
    /\ RunsReturned
    /\ ~InRange
    /\ \E k \in 1..Len(runs) :
           /\ IsNumbered(runs[k][1]) /\ IsWildcard(runs[k][2]) /\ IsNumbered(runs[k][3])
    /\ \E k \in 1..Len(runs) : IsWildcard(runs[k][1])

----------------------------------------------------------------------------
(* C4 *)

\* the i-th color of a set of colors, in the order of Color
IthColor(S, i) ==
    CHOOSE c \in S : Cardinality({d \in S : ColorOrd(d) < ColorOrd(c)}) = i - 1

\* the sub-multiset of the pool of a number made of the tiles of the colors S
\* and k wildcards, its tiles sorted
SubPool(number, S, k) ==
    [i \in 1..Cardinality(S) |-> CardNew(number, IthColor(S, i))]
        \o [i \in 1..k |-> Wildcard]

\* the sub-multisets of 3 or 4 tiles of the pool of a number: its distinct-color
\* tiles plus the W wildcards; none when C + W < 3
PoolGroups(n) ==
    IF Cardinality(ColorsOf(n)) + W >= 3
    THEN {SubPool(n, S, k) :
             <<S, k>> \in {p \in (SUBSET ColorsOf(n)) \X (0..W) :
                               Cardinality(p[1]) + p[2] \in {3, 4}}}
    ELSE {}

\* the sub-multisets of 3 or 4 tiles of the pools of the numbers of the tray
ExpectedGroups == UNION {PoolGroups(n) : n \in NumbersInTray}

\* every number a tile can be asked about: the numbers of a run and whatever
\* number a tile of the tray carries
EveryNumber == (MinNumber..MaxNumber) \cup NumbersInTray

\* the sub-multisets of 3 or 4 tiles of the pools of every number, a number no
\* tile of the tray carries included (C = 0, its pool is the W wildcards)
ExpectedGroupsOfEveryNumber == UNION {PoolGroups(n) : n \in EveryNumber}

\* C4 as stated: find_same_numbers returns exactly, and once each, the
\* value-distinct sub-multisets of 3 or 4 tiles of the candidate pool of every
\* number with C + W >= 3, and nothing for a number with C + W < 3.
C4_GroupsOfEveryNumber ==
    SameNumbersReturned =>
        /\ {SortCards(same_numbers[k]) : k \in 1..Len(same_numbers)}
               = ExpectedGroupsOfEveryNumber
        /\ Len(same_numbers) = Cardinality(ExpectedGroupsOfEveryNumber)

\* C4 amended: find_same_numbers returns exactly, and once each, the
\* value-distinct sub-multisets of 3 or 4 tiles of the candidate pool (the
\* distinct-color tiles of the number plus the W wildcards) of every number
\* that a numbered tile of the tray carries and that has C + W >= 3; it returns
\* nothing for a number with C + W < 3 and nothing for a number no tile of the
\* tray carries, so a tray without a numbered tile yields no group.
C4_GroupsAreTheSubPools ==
    SameNumbersReturned =>
        /\ {SortCards(same_numbers[k]) : k \in 1..Len(same_numbers)} = ExpectedGroups
        /\ Len(same_numbers) = Cardinality(ExpectedGroups)
        /\ (NumbersInTray = {} => same_numbers = <<>>)

\* find_same_numbers has returned the 11 groups of a pool of three colors and
\* two wildcards
C4_Witness ==
    /\ SameNumbersReturned
    /\ W = 2
    /\ \E n \in NumbersInTray : Cardinality(ColorsOf(n)) = 3
    /\ Len(same_numbers) = 11

----------------------------------------------------------------------------
(* C5 *)

\* the windows find_runs has to emit: a color of the tray, a length and a start
\* whose window misses at most W numbers of that color
FittingWindows ==
    LET held == NumbersOfColor
        wildcards == W
    IN  {f \in ColorsInTray \X Windows :
            Cardinality((f[2][2]..(f[2][2] + f[2][1] - 1)) \ held[f[1]]) <= wildcards}

\* C5: for every color with a numbered tile in the tray, find_runs emits exactly
\* one run for each window (length 3..13, start 1..14-length) that misses at
\* most W numbers of that color, and no other run; the run lists the window in
\* increasing-number order with a wildcard in each missing position.
C5_RunsAreTheFittingWindows ==
    pc = "find_runs" =>
        LET fitting == FittingWindows
            expected == [f \in fitting |-> WindowRun(f[1], f[2][1], f[2][2])]
            emitted == {runs[k] : k \in 1..Len(runs)}
        IN  /\ Len(runs) = Cardinality(fitting)
            /\ \A f \in fitting : expected[f] \in emitted
            /\ \A r \in emitted :
                   Cardinality({k \in 1..Len(runs) : runs[k] = r})
                       = Cardinality({f \in fitting : expected[f] = r})

\* find_runs has returned runs for two colors with two wildcards, one of them a
\* run of 4 or more tiles with both wildcards
C5_Witness ==
    /\ RunsReturned
    /\ W = 2
    /\ Cardinality(ColorsInTray) >= 2
    /\ \E k \in 1..Len(runs) : Len(runs[k]) >= 4 /\ NumWildcards(runs[k]) = 2
    /\ \E i, j \in 1..Len(runs) :
           \E a \in 1..Len(runs[i]), b \in 1..Len(runs[j]) :
               /\ IsNumbered(runs[i][a]) /\ IsNumbered(runs[j][b])
               /\ runs[i][a].color # runs[j][b].color

----------------------------------------------------------------------------
(* C6 *)

\* C6 as stated: for the tray 2-Blue, 2-Red, 2-Yellow, Wildcard the group search
\* returns 6 sets.
C6_ScenarioReturnsSixSets ==
    (cards = Scenario2Tray /\ SameNumbersReturned) => Len(same_numbers) = 6

\* C6 amended: for the tray 2-Blue, 2-Red, 2-Yellow, Wildcard the group search
\* returns 5 sets: the three colors, the three colors with the wildcard, and
\* the 3 triples of two of the three colors with the wildcard.
C6_ScenarioReturnsFiveSets ==
    (cards = Scenario2Tray /\ SameNumbersReturned) =>
        LET r == CardNew(2, "Red")
            b == CardNew(2, "Blue")
            y == CardNew(2, "Yellow")
        IN  /\ Len(same_numbers) = 5
            /\ {SortCards(same_numbers[k]) : k \in 1..Len(same_numbers)}
                   = { <<r, b, y>>, <<r, b, y, Wildcard>>,
                       <<r, b, Wildcard>>, <<r, y, Wildcard>>, <<b, y, Wildcard>> }

\* find_same_numbers has returned for the tray of the scenario
C6_Witness == cards = Scenario2Tray /\ SameNumbersReturned /\ same_numbers # <<>>

----------------------------------------------------------------------------
(* C7 *)

\* C7 as stated: no set returned by find_same_numbers has the same sorted
\* content as a set returned by find_runs.
C7_NoGroupIsARun ==
    pc = "done" =>
        \A i \in 1..Len(same_numbers), j \in 1..Len(runs) :
            SortCards(same_numbers[i]) # SortCards(runs[j])

\* C7 amended: a set returned by find_same_numbers has the same sorted content
\* as a set returned by find_runs only if it holds at most one numbered tile
\* (the rest wildcards).
C7_GroupIsARunOnlyWithOneNumberedTile ==
    pc = "done" =>
        \A i \in 1..Len(same_numbers), j \in 1..Len(runs) :
            SortCards(same_numbers[i]) = SortCards(runs[j])
                => NumNumbered(same_numbers[i]) <= 1

\* valid_sets has returned a group that is also a run, next to groups and runs
\* with two or more numbered tiles
C7_Witness ==
    /\ pc = "done"
    /\ \E i \in 1..Len(same_numbers), j \in 1..Len(runs) :
           SortCards(same_numbers[i]) = SortCards(runs[j])
    /\ \E i \in 1..Len(same_numbers) : NumNumbered(same_numbers[i]) >= 2
    /\ \E j \in 1..Len(runs) : NumNumbered(runs[j]) >= 2

----------------------------------------------------------------------------
(* C8 *)

\* some number of the tray has 3 or more candidates for a group
AdmitsGroup == \E n \in NumbersInTray : Cardinality(ColorsOf(n)) + W >= 3

\* some window of some color of the tray can be filled
AdmitsRun == FittingWindows # {}

\* C8: for a tray whose numbered tiles have numbers in 1..13, valid_sets does not
\* fail (no wildcard is taken from an empty pool), and it returns the empty
\* collection when the tray admits no group and no run.
C8_ValidSetsSucceeds ==
    InRange =>
        /\ pc # "panic"
        /\ (pc = "done" /\ ~AdmitsGroup /\ ~AdmitsRun) => sets = <<>>

\* valid_sets has returned runs in which wildcards were taken for missing slots,
\* for a tray with numbers in 1..13
C8_Witness ==
    /\ InRange
    /\ pc = "done"
    /\ \E k \in 1..Len(runs) : NumWildcards(runs[k]) = W /\ W >= 2

----------------------------------------------------------------------------
(* C9 *)

\* C9: no Numbered tile with a number outside 1..13 is ever part of a tray
\* passed to the search, its construction being rejected.
C9_NoCardOutsideOneToThirteen ==
    \A i \in 1..Len(cards) :
        IsNumbered(cards[i]) => cards[i].number \in MinNumber..MaxNumber

----------------------------------------------------------------------------
(* C10 *)

\* the order of the claim: Numbered tiles by number, then color; a Wildcard
\* after every Numbered tile
ClaimedLess(a, b) ==
    \/ /\ IsNumbered(a) /\ IsNumbered(b)
       /\ \/ a.number < b.number
          \/ a.number = b.number /\ ColorOrd(a.color) < ColorOrd(b.color)
    \/ IsNumbered(a) /\ IsWildcard(b)

\* C10: the tile order find_same_numbers has sorted and deduplicated with is a
\* total order in which two Numbered tiles compare by number, then color,
\* every Wildcard compares after every Numbered tile, and two Wildcards compare
\* equal.
C10_TileOrder ==
    pc = "find_same_numbers" =>
        LET tiles == {cards[i] : i \in 1..Len(cards)}
        IN  /\ \A a, b \in tiles :
                   /\ CardCmp(a, b) = -1 <=> ClaimedLess(a, b)
                   /\ CardCmp(a, b) = 1 <=> ClaimedLess(b, a)
                   /\ CardCmp(a, b) = 0 <=> a = b
                   /\ (IsWildcard(a) /\ IsWildcard(b)) => CardCmp(a, b) = 0
            /\ \A a, b, c \in tiles :
                   (CardCmp(a, b) <= 0 /\ CardCmp(b, c) <= 0) => CardCmp(a, c) <= 0
            /\ \A k \in 1..Len(same_numbers) :
                   \A i \in 1..(Len(same_numbers[k]) - 1) :
                       ~ClaimedLess(same_numbers[k][i + 1], same_numbers[k][i])

\* find_same_numbers has sorted a tray that holds a tile with the smaller number
\* and the later color, a tile with the larger number and the earlier color, and
\* a wildcard in front of a numbered tile
C10_Witness ==
    /\ pc = "find_same_numbers"
    /\ \E i, j \in 1..Len(cards) :
           /\ IsNumbered(cards[i]) /\ IsNumbered(cards[j])
           /\ cards[i].number < cards[j].number
           /\ ColorOrd(cards[i].color) > ColorOrd(cards[j].color)
    /\ \E i, j \in 1..Len(cards) :
           i < j /\ IsWildcard(cards[i]) /\ IsNumbered(cards[j])

----------------------------------------------------------------------------
(* C11 *)

\* what valid_sets returns for a tray
ValidSetsOf(cs) == ValidSets(FindRuns(cs), FindSameNumbers(cs))

\* the positions of the tray that hold a further copy of a numbered tile the
\* tray holds at another position as well
FurtherCopies ==
    {i \in 1..Len(cards) :
        IsNumbered(cards[i]) /\ \E j \in 1..Len(cards) : j # i /\ cards[j] = cards[i]}

\* C11: a further copy of a numbered tile the tray already holds does not change
\* what valid_sets returns (the tray without the copy gives the same sets, by
\* tile value); no group holds two tiles of one color and no run holds a number
\* twice.
C11_FurtherCopyChangesNothing ==
    pc = "done" =>
        /\ \A i \in FurtherCopies : ValidSetsOf(Remove(cards, i - 1)) = sets
        /\ \A k \in 1..Len(sets) :
               \A i, j \in 1..Len(sets[k]) :
                   (i # j /\ IsNumbered(sets[k][i]) /\ IsNumbered(sets[k][j]))
                       => IF IsRun(k)
                          THEN sets[k][i].number # sets[k][j].number
                          ELSE sets[k][i].color # sets[k][j].color

\* valid_sets has returned a group and a run that hold a tile of which the tray
\* holds two copies
C11_Witness ==
    /\ pc = "done"
    /\ \E i \in FurtherCopies :
           /\ \E k \in 1..Len(same_numbers) :
                  \E a \in 1..Len(same_numbers[k]) : same_numbers[k][a] = cards[i]
           /\ \E k \in 1..Len(runs) :
                  \E a \in 1..Len(runs[k]) : runs[k][a] = cards[i]

----------------------------------------------------------------------------
(* C12 *)

\* the tray with the cards at positions i and i + 1 exchanged
Swap(v, i) ==
    [k \in 1..Len(v) |-> IF k = i THEN v[i + 1] ELSE IF k = i + 1 THEN v[i] ELSE v[k]]

\* the tray back to front
Reverse(v) == [k \in 1..Len(v) |-> v[Len(v) + 1 - k]]

\* reorderings of a tray: every exchange of two neighbours (they generate every
\* permutation, and the trays of up to MaxHand cards are there in every order),
\* the tray back to front, and the tray sorted; the tray itself left out
Reorderings(v) ==
    ({Swap(v, i) : i \in 1..(Len(v) - 1)} \cup {Reverse(v), SortCards(v)}) \ {v}

\* C12: valid_sets returns for a reordering of the tray the same sequence of
\* sets by tile value, each set with its tiles in the same order (checked on
\* the trays that come in every order, SpecAnyOrder).
C12_OrderOfTheTrayDoesNotMatter ==
    pc = "done" =>
        \A p \in Reorderings(cards) : ValidSetsOf(p) = sets

\* valid_sets has returned groups and runs for a tray that is not sorted and is
\* not its own reverse
C12_Witness ==
    /\ pc = "done"
    /\ cards # SortCards(cards)
    /\ cards # Reverse(cards)
    /\ same_numbers # <<>>
    /\ runs # <<>>

====
